---- MODULE Spec2Model ----
(***************************************************************************)
(* Attendance audit and escalation engine: the audits / users /            *)
(* acknowledgment_tokens store of database.py, the repair tool of          *)
(* database_repair.py, and the scheduler tick and acknowledgment handler   *)
(* that drive them.                                                        *)
(*                                                                         *)
(* SQL NULL / Python None is NULL.  A timestamp string is the minute it    *)
(* formats; a workday string is the day number of that minute.  The audits *)
(* table is a sequence of rows in rowid order, which is the order an       *)
(* unordered SELECT ... fetchone() scans it in.                            *)
(***************************************************************************)
EXTENDS Integers, Sequences, FiniteSets, TLC

NULL ==
    -1

\* ---------------------------------------------------------------- bounds
MaxNow ==
    40
MaxShortTicks ==
    5
MaxId ==
    3
MaxRows ==
    2
MaxTokens ==
    2
MaxRequests ==
    2

\* ------------------------------------------------------- program constants
SUPERVISOR_ESCALATION_MINUTES ==
    2
SUPERVISOR_NOTIFICATION_INTERVAL_MINUTES ==
    30
SCHEDULER_CHECK_INTERVAL_MINUTES ==
    2
MAX_SELF_NOTIFICATIONS ==
    3
\* minutes in a workday: strftime("%Y-%m-%d") of a minute is its day
DayLen ==
    1440

Users ==
    {"u1"}
\* the user database_repair.py repairs when none is named on the command line
FIX_USER ==
    "u1"
Tokens ==
    1..MaxTokens
Procs ==
    {"sched", "repair"}

VARIABLES
    audits,      \* the audits table, rows in rowid order
    seq,         \* sqlite_sequence of audits: the largest id AUTOINCREMENT gave
    idIsPk,      \* the id column is INTEGER PRIMARY KEY AUTOINCREMENT
    dupCols,     \* the audits table still carries obsolete columns
    started,     \* main() has run init_database and started the threads
    users,       \* the users table, by user_slack_id
    tokens,      \* the acknowledgment_tokens table, by token
    nextToken,   \* tokens issued so far (each issue draws a fresh random one)
    now,         \* the wall clock, in minutes
    pc,          \* scheduler thread, repair process: the call it is in the middle of
    consuming,   \* per token: the request threads between its lookup and its mark
    intent,      \* what the step emitted: whom about, which tier, the halt it reported
    loginOk,     \* (user, workday) for which update_user_login returned True
    supIntentAt, \* per user: when the last supervisor intent was emitted
    granted,     \* per token: how many consumptions succeeded
    serviceLimit, \* the number in the service's "if self_notified < N:" line
    selfLimit,   \* that number as the running scheduler loaded it
    savedLimit,  \* the number the settings form last saved
    startLimit   \* savedLimit when the scheduler was last started

settings ==
    <<serviceLimit, selfLimit, savedLimit, startLimit>>
vars ==
    <<audits, seq, idIsPk, dupCols, started, users, tokens, nextToken, now,
      pc, consuming, intent, loginOk, supIntentAt, granted,
      serviceLimit, selfLimit, savedLimit, startLimit>>

\* ------------------------------------------------------------------ clock
Workday(t) ==
    t \div DayLen
TimeOfDay(t) ==
    t % DayLen
Today ==
    Workday(now)

\* A time-of-day text.  strftime("%H:%M") writes a minute of the day as five
\* characters, zero-padded; the dashboard stores a user's login time as the
\* text typed into its form, which is a code here: the minute m for the
\* padded "HH:MM", Unpadded + m for "H:MM" typed without the leading zero,
\* Blank for the empty text.  Characters are their rank in the collation:
\* a digit is its value, the colon sorts after every digit.
Colon ==
    10
Unpadded ==
    10000
Blank ==
    20000
HHMM(m) ==
    << (m \div 60) \div 10, (m \div 60) % 10, Colon, (m % 60) \div 10, (m % 60) % 10 >>
Chars(c) ==
    IF c = Blank THEN << >>
    ELSE IF c >= Unpadded
    THEN << (c - Unpadded) \div 60, Colon,
            ((c - Unpadded) % 60) \div 10, ((c - Unpadded) % 60) % 10 >>
    ELSE HHMM(c)
\* the time of day a text denotes to strptime("%H:%M"), NULL for the blank
ParsedMinutes(c) ==
    IF c = Blank \/ c = NULL THEN NULL
    ELSE IF c >= Unpadded THEN c - Unpadded
    ELSE c
\* a <= b between TEXT values in SQL: bytewise, a prefix sorting first
LexLeq(a, b) ==
    \/ /\ Len(a) <= Len(b)
       /\ \A i \in 1..Len(a) : a[i] = b[i]
    \/ \E k \in 1..Len(a) :
           /\ k <= Len(b)
           /\ \A i \in 1..(k - 1) : a[i] = b[i]
           /\ a[k] < b[k]
\* ticks at the check interval since the last long pause of the scheduler
ShortTicks(t) ==
    (t % SUPERVISOR_NOTIFICATION_INTERVAL_MINUTES) \div SCHEDULER_CHECK_INTERVAL_MINUTES

\* ------------------------------------------------------------- audits rows
Match(r, u, d) ==
    r.user_slack_id = u /\ r.workday = d
RowsOf(A, u, d) ==
    SelectSeq(A, LAMBDA r : Match(r, u, d))
DeleteRows(A, u, d) ==
    SelectSeq(A, LAMBDA r : ~Match(r, u, d))
HasRow(A, u, d) ==
    RowsOf(A, u, d) # <<>>
\* cursor.fetchone() of SELECT ... WHERE user_slack_id = ? AND workday = ?
FetchOne(A, u, d) ==
    Head(RowsOf(A, u, d))
RowsById(A, id) ==
    SelectSeq(A, LAMBDA r : id # NULL /\ r.id = id)
\* UPDATE audits SET f = v WHERE id = ?  (id = NULL matches no row)
SetWhereId(A, id, f, v) ==
    [i \in DOMAIN A |->
        IF id # NULL /\ A[i].id = id THEN [A[i] EXCEPT ![f] = v] ELSE A[i]]

\* The value a column left out of an INSERT gets: its DEFAULT 0 while the
\* table has the schema of init_database, NULL once the table was rebuilt
\* from (name, type) pairs alone.
ColumnDefault(pk) ==
    IF pk THEN 0 ELSE NULL

\* INSERT INTO audits (user_slack_id, workday, [login_time | logout_time,]
\*   self_notified, ..., expected_login_time) VALUES (?, ?, [?,] 0, 0, 0, 0, 0, ?)
NewRow(pk, sq, u, d, login, logout, expected) ==
    [ id |-> IF pk THEN sq + 1 ELSE NULL,
      user_slack_id |-> u,
      workday |-> d,
      login_time |-> login,
      logout_time |-> logout,
      self_notified |-> 0,
      supervisor_notified |-> 0,
      second_supervisor_notified |-> 0,
      is_supervisor_acknowledged |-> 0,
      is_second_supervisor_acknowledged |-> 0,
      last_supervisor_notification_time |-> NULL,
      last_second_supervisor_notification_time |-> NULL,
      expected_login_time |-> expected,
      email_supervisor_notified |-> ColumnDefault(pk),
      email_second_supervisor_notified |-> ColumnDefault(pk) ]
InsertRow(A, pk, sq, u, d, login, logout, expected) ==
    [ A |-> Append(A, NewRow(pk, sq, u, d, login, logout, expected)),
      S |-> IF pk THEN sq + 1 ELSE sq ]

\* SELECT user_login_time FROM users WHERE user_slack_id = ?
ExpectedLoginOf(U, u) ==
    IF u \in DOMAIN U THEN U[u].user_login_time ELSE NULL

\* ------------------------------------------------------------ database.py
\* Each store function is an operator from the committed store to the
\* committed store it leaves and its return value.

\* create_audit_record, lines 446-455: the lookup made before any transaction.
\* The id of the first row of (u, d), NULL when there is no row or no id.
create_lookup(A, u, d) ==
    IF HasRow(A, u, d) THEN FetchOne(A, u, d).id ELSE NULL
\* create_audit_record, lines 458-490: delete, insert, verify, commit; the
\* verification failing rolls back and raises (ret = NULL).
create_txn(A, pk, sq, u, d, t) ==
    LET ins == InsertRow(DeleteRows(A, u, d), pk, sq, u, d, NULL, NULL, t)
        verification == FetchOne(ins.A, u, d).id
    IN  IF verification # NULL
        THEN [A |-> ins.A, S |-> ins.S, ret |-> ins.S, raised |-> FALSE]
        ELSE [A |-> A, S |-> sq, ret |-> NULL, raised |-> TRUE]
create_audit_record(A, pk, sq, u, d, t) ==
    IF create_lookup(A, u, d) # NULL
    THEN [A |-> A, S |-> sq, ret |-> create_lookup(A, u, d), raised |-> FALSE]
    ELSE create_txn(A, pk, sq, u, d, t)

\* get_audit_record: a first row without an id makes it delete every row of
\* (u, d) and insert a blank one; then it returns the first row, or None
\* when that row still has no id.
get_audit_record(A, pk, sq, U, u, d) ==
    LET broken == HasRow(A, u, d) /\ FetchOne(A, u, d).id = NULL
        ins == InsertRow(DeleteRows(A, u, d), pk, sq, u, d, NULL, NULL,
                         ExpectedLoginOf(U, u))
        A1 == IF broken THEN ins.A ELSE A
        S1 == IF broken THEN ins.S ELSE sq
    IN  [ A |-> A1, S |-> S1,
          found |-> HasRow(A1, u, d) /\ FetchOne(A1, u, d).id # NULL,
          ret |-> IF HasRow(A1, u, d) THEN FetchOne(A1, u, d)
                  ELSE NewRow(FALSE, 0, u, d, NULL, NULL, NULL) ]

\* update_user_login / record_user_logout (lines 614-673 repeat 516-575 for
\* logout_time): upsert of field f, verified against the first row of (u, d).
\* the upsert committing and returning True without its verification
upsert_time_unverified(A, pk, sq, U, u, d, f, t) ==
    LET ins == IF f = "login_time"
               THEN InsertRow(A, pk, sq, u, d, t, NULL, ExpectedLoginOf(U, u))
               ELSE InsertRow(A, pk, sq, u, d, NULL, t, ExpectedLoginOf(U, u))
    IN  IF HasRow(A, u, d)
        THEN [A |-> SetWhereId(A, FetchOne(A, u, d).id, f, t), S |-> sq, ret |-> TRUE]
        ELSE [A |-> ins.A, S |-> ins.S, ret |-> TRUE]
\* the upsert replacing the rows of (u, d) by a new row that carries the time
upsert_time_replacing(A, pk, sq, U, u, d, f, t) ==
    LET ins == IF f = "login_time"
               THEN InsertRow(DeleteRows(A, u, d), pk, sq, u, d, t, NULL,
                              ExpectedLoginOf(U, u))
               ELSE InsertRow(DeleteRows(A, u, d), pk, sq, u, d, NULL, t,
                              ExpectedLoginOf(U, u))
    IN  [A |-> ins.A, S |-> ins.S, ret |-> TRUE]
upsert_time(A, pk, sq, U, u, d, f, t) ==
    LET ins == IF f = "login_time"
               THEN InsertRow(A, pk, sq, u, d, t, NULL, ExpectedLoginOf(U, u))
               ELSE InsertRow(A, pk, sq, u, d, NULL, t, ExpectedLoginOf(U, u))
        A1 == IF HasRow(A, u, d)
              THEN SetWhereId(A, FetchOne(A, u, d).id, f, t)
              ELSE ins.A
        S1 == IF HasRow(A, u, d) THEN sq ELSE ins.S
    IN  IF FetchOne(A1, u, d)[f] = t
        THEN [A |-> A1, S |-> S1, ret |-> TRUE]
        ELSE [A |-> A, S |-> sq, ret |-> FALSE]
update_user_login(A, pk, sq, U, u, d, t) ==
    upsert_time(A, pk, sq, U, u, d, "login_time", t)
record_user_logout_at(A, pk, sq, U, u, d, t) ==
    upsert_time(A, pk, sq, U, u, d, "logout_time", t)
\* their except branch (a statement raised, the database being locked for
\* one): rollback, return False
upsert_raised(A, sq) ==
    [A |-> A, S |-> sq, ret |-> FALSE]
\* what a call can come to
upsert_outcomes(A, pk, sq, U, u, d, f, t) ==
    {upsert_time(A, pk, sq, U, u, d, f, t), upsert_raised(A, sq)}

\* update_audit_record(audit_id, **kw) for the field changes kw (a function
\* from column names to values): with no field it returns at once, and
\* returns None (none = TRUE); with an id it commits when a row with that id
\* exists.
\* A value bound to a column is stored under the column's affinity: a text of
\* digits bound to an INTEGER column is stored as the integer.  StrOf(n) is
\* the text of the digits of n.
DigitText == 30000
StrOf(n) ==
    DigitText + n
IntegerColumns ==
    { "id", "self_notified", "supervisor_notified", "second_supervisor_notified",
      "is_supervisor_acknowledged", "is_second_supervisor_acknowledged",
      "email_supervisor_notified", "email_second_supervisor_notified" }
ColumnAffinity(c, v) ==
    IF c \in IntegerColumns /\ v >= DigitText THEN v - DigitText ELSE v
SetFields(r, kw) ==
    [c \in DOMAIN r |->
        IF c \in DOMAIN kw THEN ColumnAffinity(c, kw[c]) ELSE r[c]]
\* update_audit_record committing and returning True without its verification
update_audit_record_unverified(A, id, kw) ==
    [A |-> [i \in DOMAIN A |->
               IF id # NULL /\ A[i].id = id THEN SetFields(A[i], kw) ELSE A[i]],
     ret |-> TRUE, none |-> FALSE]
update_audit_record(A, id, kw) ==
    IF DOMAIN kw = {}
    THEN [A |-> A, ret |-> FALSE, none |-> TRUE]
    ELSE IF id = NULL \/ RowsById(A, id) = <<>>
    THEN [A |-> A, ret |-> FALSE, none |-> FALSE]
    ELSE [A |-> [i \in DOMAIN A |->
                    IF A[i].id = id THEN SetFields(A[i], kw) ELSE A[i]],
          ret |-> TRUE, none |-> FALSE]

\* get_users_without_login at time t
get_users_without_login(A, U, t) ==
    { u \in DOMAIN U :
        /\ U[u].user_login_time # NULL
        /\ LexLeq(Chars(U[u].user_login_time), HHMM(TimeOfDay(t)))
        /\ \/ ~ \E i \in DOMAIN A : /\ A[i].user_slack_id = u
                                    /\ A[i].workday = Workday(t)
                                    /\ A[i].login_time # NULL
           \/ \E i \in DOMAIN A : /\ A[i].user_slack_id = u
                                  /\ A[i].workday = Workday(t)
                                  /\ A[i].login_time = NULL }

\* find_unacknowledged_audit_record(S, is_secondary): audits JOIN users on
\* the user, the user's supervisor of the tier being S, the tier notified and
\* not acknowledged, ORDER BY a.id DESC LIMIT 1 (a NULL id sorts last)
Unacknowledged(A, U, S, secondary) ==
    { i \in DOMAIN A :
        /\ A[i].user_slack_id \in DOMAIN U
        /\ IF secondary
           THEN /\ U[A[i].user_slack_id].second_supervisor_slack_id = S
                /\ A[i].second_supervisor_notified > 0
                /\ A[i].is_second_supervisor_acknowledged = 0
           ELSE /\ U[A[i].user_slack_id].supervisor_slack_id = S
                /\ A[i].supervisor_notified > 0
                /\ A[i].is_supervisor_acknowledged = 0 }
\* the same with ORDER BY a.id ASC
find_unacknowledged_audit_record_oldest(A, U, S, secondary) ==
    LET Q == Unacknowledged(A, U, S, secondary)
    IN  IF Q = {} THEN [found |-> FALSE, at |-> 0]
        ELSE [found |-> TRUE,
              at |-> CHOOSE i \in Q : \A j \in Q : A[j].id >= A[i].id]
find_unacknowledged_audit_record(A, U, S, secondary) ==
    LET Q == Unacknowledged(A, U, S, secondary)
    IN  IF Q = {} THEN [found |-> FALSE, at |-> 0]
        ELSE [found |-> TRUE,
              at |-> CHOOSE i \in Q : \A j \in Q : A[j].id <= A[i].id]

\* fix_stuck_records at time t: the rows it selects, and the table it leaves
StuckRow(r, d) ==
    /\ r.workday = d
    /\ r.supervisor_notified > 0
    /\ r.second_supervisor_notified = 0
    /\ r.is_supervisor_acknowledged = 0
\* fix_stuck_records resetting the primary tier's counter of every
\* unacknowledged notified row of today, whatever its second tier
fix_stuck_records_resets_primary(A, t) ==
    [i \in DOMAIN A |->
        IF /\ A[i].workday = Workday(t)
           /\ A[i].supervisor_notified > 0
           /\ A[i].is_supervisor_acknowledged = 0
           /\ A[i].id # NULL
        THEN [A[i] EXCEPT !.supervisor_notified = 0,
                          !.is_second_supervisor_acknowledged = 0,
                          !.last_supervisor_notification_time = t]
        ELSE A[i]]
\* fix_stuck_records clearing the stamp of the rows it resets
fix_stuck_records_clears_stamp(A, t) ==
    [i \in DOMAIN A |->
        IF StuckRow(A[i], Workday(t)) /\ A[i].id # NULL
        THEN [A[i] EXCEPT !.supervisor_notified = 0,
                          !.second_supervisor_notified = 0,
                          !.is_second_supervisor_acknowledged = 0]
        ELSE A[i]]
\* fix_stuck_records selecting acknowledged rows too and clearing the
\* supervisor's acknowledgment
fix_stuck_records_clears_acknowledgment(A, t) ==
    [i \in DOMAIN A |->
        IF /\ A[i].workday = Workday(t)
           /\ A[i].supervisor_notified > 0
           /\ A[i].second_supervisor_notified = 0
           /\ A[i].id # NULL
        THEN [A[i] EXCEPT !.second_supervisor_notified = 0,
                          !.is_supervisor_acknowledged = 0,
                          !.is_second_supervisor_acknowledged = 0,
                          !.last_supervisor_notification_time = t]
        ELSE A[i]]
fix_stuck_records(A, t) ==
    [i \in DOMAIN A |->
        IF StuckRow(A[i], Workday(t)) /\ A[i].id # NULL
        THEN [A[i] EXCEPT !.second_supervisor_notified = 0,
                          !.is_second_supervisor_acknowledged = 0,
                          !.last_supervisor_notification_time = t]
        ELSE A[i]]
\* its fixed_count: one for every id the SELECT returned, NULL ids included
fix_stuck_records_count(A, t) ==
    Cardinality({ i \in DOMAIN A : StuckRow(A[i], Workday(t)) })

\* ---------------------------------------------- acknowledgment_tokens table
\* store_acknowledgment_token: INSERT; token is the PRIMARY KEY, so a token
\* already stored raises, rolls back and returns False.
store_acknowledgment_token(T, tok, u, second, t) ==
    IF tok \in DOMAIN T
    THEN [T |-> T, ret |-> FALSE]
    ELSE [T |-> [k \in DOMAIN T \cup {tok} |->
                    IF k = tok
                    THEN [user_slack_id |-> u, is_second_supervisor |-> second,
                          created_at |-> t, used |-> 0]
                    ELSE T[k]],
          ret |-> TRUE]
\* its except branch (a statement raised, the database being locked for
\* one): rollback, return False
store_raised(T) ==
    [T |-> T, ret |-> FALSE]
\* get_acknowledgment_token answering an unknown token with an empty unused
\* row instead of None
get_acknowledgment_token_default_row(T, tok) ==
    [ found |-> TRUE,
      row |-> IF tok \in DOMAIN T THEN T[tok]
              ELSE [user_slack_id |-> "", is_second_supervisor |-> 0,
                    created_at |-> NULL, used |-> 0] ]
\* get_acknowledgment_token: the row, or None (found = FALSE)
get_acknowledgment_token(T, tok) ==
    [ found |-> tok \in DOMAIN T,
      row |-> IF tok \in DOMAIN T THEN T[tok]
              ELSE [user_slack_id |-> "", is_second_supervisor |-> 0,
                    created_at |-> NULL, used |-> 0] ]
\* mark_token_used whose UPDATE matches no row (it still returns True)
mark_token_used_no_match(T, tok) ==
    [T |-> T, ret |-> TRUE]
\* mark_token_used: UPDATE ... SET used = 1 WHERE token = ?; returns True
\* whether or not a row matched.
mark_token_used(T, tok) ==
    [ T |-> [k \in DOMAIN T |-> IF k = tok THEN [T[k] EXCEPT !.used = 1] ELSE T[k]],
      ret |-> TRUE ]

\* ------------------------------------------------------ database_repair.py
Coalesce(v) ==
    IF v = NULL THEN 0 ELSE v
\* the SELECT list of manual_fix steps 3 and 4: id is not copied, the
\* counters and flags go through COALESCE(., 0)
CopiedRow(r, id) ==
    [r EXCEPT !.id = id,
              !.self_notified = Coalesce(@),
              !.supervisor_notified = Coalesce(@),
              !.second_supervisor_notified = Coalesce(@),
              !.is_supervisor_acknowledged = Coalesce(@),
              !.is_second_supervisor_acknowledged = Coalesce(@),
              !.email_supervisor_notified = Coalesce(@),
              !.email_second_supervisor_notified = Coalesce(@)]
\* step 3 copies the rows that have an id; step 4 the rows without one whose
\* (user, workday) step 3 did not copy.  new_audits numbers them from 1.
manual_fix_copy(A) ==
    LET valid == SelectSeq(A, LAMBDA r : r.id # NULL)
        nulls == SelectSeq(A, LAMBDA r :
                     r.id = NULL /\ ~HasRow(valid, r.user_slack_id, r.workday))
        src == valid \o nulls
    IN  [i \in DOMAIN src |-> CopiedRow(src[i], i)]
\* fix_user_record, lines 161-162: is there a row of (u, today)
fix_user_lookup(A, u, d) ==
    HasRow(A, u, d)
\* fix_user_record, lines 164-179: the INSERT made when the lookup found none
fix_user_insert(A, pk, sq, u, d, expected) ==
    InsertRow(A, pk, sq, u, d, NULL, NULL, expected)
fix_user_record(A, pk, sq, U, u, d) ==
    IF fix_user_lookup(A, u, d)
    THEN [A |-> A, S |-> sq]
    ELSE fix_user_insert(A, pk, sq, u, d, ExpectedLoginOf(U, u))
\* manual_fix: rebuild the table with the schema of init_database, then
\* fix_user_record for the hard-coded user
manual_fix(A, U, d) ==
    LET copy == manual_fix_copy(A)
    IN  fix_user_record(copy, TRUE, Len(copy), U, FIX_USER, d)
\* check_tables: the columns are there and id is the primary key
check_tables(pk) ==
    pk

\* ------------------------------------------ scheduler tick: escalation step
\* The escalation decision for one candidate, from its record of today:
\* which tier, if any, is notified at time t.
EscalationTier(found, rec, second, t) ==
    IF ~found THEN "none"
    ELSE IF rec.login_time # NULL THEN "none"
    ELSE IF rec.self_notified < selfLimit THEN "self"
    ELSE IF rec.is_supervisor_acknowledged = 1
            \/ rec.is_second_supervisor_acknowledged = 1 THEN "none"
    ELSE IF rec.supervisor_notified = 0 THEN "supervisor"
    ELSE IF /\ second
            /\ rec.second_supervisor_notified = 0
            /\ t - rec.last_supervisor_notification_time
                   >= SUPERVISOR_ESCALATION_MINUTES THEN "second"
    ELSE IF t - rec.last_supervisor_notification_time
                >= SUPERVISOR_NOTIFICATION_INTERVAL_MINUTES THEN "supervisor"
    ELSE "none"
\* the reportable halt: the supervisor was notified and has not acknowledged,
\* the next tier is the second supervisor, and the user has none configured
NoSecondSupervisor(found, rec, second) ==
    /\ found
    /\ rec.login_time = NULL
    /\ rec.self_notified >= selfLimit
    /\ rec.is_supervisor_acknowledged = 0
    /\ rec.is_second_supervisor_acknowledged = 0
    /\ rec.supervisor_notified > 0
    /\ ~second
\* the audit fields the transition to a tier writes
EscalationFields(rec, tier, t) ==
    IF tier = "self"
    THEN "self_notified" :> rec.self_notified + 1
    ELSE IF tier = "supervisor"
    THEN ("supervisor_notified" :> rec.supervisor_notified + 1)
         @@ ("last_supervisor_notification_time" :> t)
    ELSE ("second_supervisor_notified" :> rec.second_supervisor_notified + 1)
         @@ ("last_second_supervisor_notification_time" :> t)
\* evaluate for candidate u at time t: read the record, decide, issue the
\* token of a supervisor tier, write the fields; the intent is emitted with
\* the write.  nt is the number of tokens issued so far; raised tells whether
\* the token's INSERT raised.  The record update and the token store are two
\* calls, each a transaction on a connection of its own.
escalate(A, pk, sq, T, nt, U, u, t, raised) ==
    LET g == get_audit_record(A, pk, sq, U, u, Workday(t))
        tier == EscalationTier(g.found, g.ret,
                               U[u].second_supervisor_slack_id # "none", t)
        upd == IF tier = "none" THEN [A |-> g.A, ret |-> FALSE]
               ELSE update_audit_record(g.A, g.ret.id,
                                        EscalationFields(g.ret, tier, t))
        tok == IF upd.ret /\ tier \in {"supervisor", "second"}
               THEN IF raised THEN store_raised(T)
                    ELSE store_acknowledgment_token(T, nt + 1, u,
                             IF tier = "second" THEN 1 ELSE 0, t)
               ELSE [T |-> T, ret |-> FALSE]
    IN  [ A |-> upd.A, S |-> g.S, T |-> tok.T,
          nt |-> IF tok.ret THEN nt + 1 ELSE nt,
          intent |-> IF upd.ret THEN tier ELSE "none",
          report |-> NoSecondSupervisor(g.found, g.ret,
                         U[u].second_supervisor_slack_id # "none") ]

\* --------------------------------------- acknowledgment link: the handler
\* lookup: the token is known and unused
ack_valid(T, tok) ==
    LET g == get_acknowledgment_token(T, tok)
    IN  g.found /\ g.row.used = 0
\* consume: mark the token used and set the tier's acknowledged flag on the
\* record of today of the token's user
ack_consume(A, pk, sq, T, U, tok, d) ==
    LET row == get_acknowledgment_token(T, tok).row
        m == mark_token_used(T, tok)
        g == get_audit_record(A, pk, sq, U, row.user_slack_id, d)
        col == IF row.is_second_supervisor = 1
               THEN "is_second_supervisor_acknowledged"
               ELSE "is_supervisor_acknowledged"
        upd == IF g.found THEN update_audit_record(g.A, g.ret.id, col :> 1)
               ELSE [A |-> g.A, ret |-> FALSE]
    IN  [A |-> upd.A, S |-> g.S, T |-> m.T]

\* one visit of the link run to its end with no other call in between:
\* Invalid (ok = FALSE, nothing written) or the token's user and tier
acknowledge(A, pk, sq, T, U, tok, d) ==
    LET row == get_acknowledgment_token(T, tok).row
        c == ack_consume(A, pk, sq, T, U, tok, d)
    IN  IF ack_valid(T, tok)
        THEN [ok |-> TRUE, user |-> row.user_slack_id,
              second |-> row.is_second_supervisor, A |-> c.A, S |-> c.S, T |-> c.T]
        ELSE [ok |-> FALSE, user |-> "", second |-> 0, A |-> A, S |-> sq, T |-> T]

\* ------------------------------------------------------------------ state
Idle ==
    [op |-> "idle", u |-> "", d |-> 0, t |-> NULL, tok |-> 0, cands |-> {}]
NoIntent ==
    [u |-> "", tier |-> "none", report |-> FALSE]
InBounds(A, sq) ==
    Len(A) <= MaxRows /\ sq <= MaxId

\* the login times the users were entered with: "00:00" or "0:00"
LoginTexts ==
    {0, Unpadded}

Init ==
    /\ audits = <<>>
    /\ seq = 0
    /\ idIsPk = TRUE
    /\ dupCols \in BOOLEAN
    /\ started = FALSE
    /\ \E second \in {"s2", "none"} : \E login \in LoginTexts :
           users = [u \in Users |->
                     [ user_login_time |-> login,
                       supervisor_slack_id |-> "s1",
                       second_supervisor_slack_id |-> second ]]
    /\ tokens = <<>>
    /\ nextToken = 0
    /\ now = 0
    /\ pc = [p \in Procs |-> Idle]
    /\ consuming = [k \in Tokens |-> 0]
    /\ intent = NoIntent
    /\ loginOk = {}
    /\ supIntentAt = [u \in Users |-> NULL]
    /\ granted = [k \in Tokens |-> 0]
    /\ serviceLimit = MAX_SELF_NOTIFICATIONS
    /\ selfLimit = MAX_SELF_NOTIFICATIONS
    /\ savedLimit = MAX_SELF_NOTIFICATIONS
    /\ startLimit = MAX_SELF_NOTIFICATIONS

\* clean_duplicate_columns: with obsolete columns present the table is
\* rebuilt as audits_new from the (name, type) pairs of PRAGMA table_info,
\* the rows copied, the old table dropped.
clean_duplicate_columns ==
    /\ idIsPk' = IF dupCols THEN FALSE ELSE idIsPk
    /\ seq' = IF dupCols THEN 0 ELSE seq
    /\ dupCols' = FALSE
    /\ audits' = audits

\* main(): init_database (the tables exist already or are created empty),
\* then the scheduler thread and the request threads start
init_database ==
    /\ ~started
    /\ started' = TRUE
    /\ clean_duplicate_columns
    /\ intent' = NoIntent
    /\ UNCHANGED <<users, tokens, nextToken, now, pc, consuming, loginOk,
                   supIntentAt, granted>>
    /\ UNCHANGED settings

\* record_user_login(u): update_user_login(u, today, now)
record_user_login(u) ==
    /\ started
    /\ \E r \in upsert_outcomes(audits, idIsPk, seq, users, u, Today,
                               "login_time", now) :
           /\ InBounds(r.A, r.S)
           /\ audits' = r.A
           /\ seq' = r.S
           /\ loginOk' = IF r.ret THEN loginOk \cup {<<u, Today>>} ELSE loginOk
           /\ intent' = NoIntent
    /\ UNCHANGED <<idIsPk, dupCols, started, users, tokens, nextToken, now,
                   pc, consuming, supIntentAt, granted>>
    /\ UNCHANGED settings

record_user_logout(u) ==
    /\ started
    /\ \E r \in upsert_outcomes(audits, idIsPk, seq, users, u, Today,
                               "logout_time", now) :
           /\ InBounds(r.A, r.S)
           /\ audits' = r.A
           /\ seq' = r.S
           /\ intent' = NoIntent
    /\ UNCHANGED <<idIsPk, dupCols, started, users, tokens, nextToken, now,
                   pc, consuming, loginOk, supIntentAt, granted>>
    /\ UNCHANGED settings

\* fix_stuck_records()
FixStuckRecords ==
    /\ started
    /\ audits' = fix_stuck_records(audits, now)
    /\ intent' = NoIntent
    /\ UNCHANGED <<seq, idIsPk, dupCols, started, users, tokens, nextToken,
                   now, pc, consuming, loginOk, supIntentAt, granted>>
    /\ UNCHANGED settings

\* ---------------------------------------------------- the scheduler thread
\* check_missed_logins starts: the clock has moved on by gap minutes since
\* the last tick; the candidates are fetched.  A store call takes far less
\* than a check interval: the calls in flight have finished by the next tick.
SchedNext(cands) ==
    IF cands = {} THEN Idle ELSE [Idle EXCEPT !.op = "tick", !.cands = cands]

TickBegin(gap) ==
    /\ started
    /\ pc["sched"].op = "idle"
    /\ \A p \in Procs : pc[p].op = "idle"
    /\ \A k \in Tokens : consuming[k] = 0
    /\ now + gap <= MaxNow
    /\ gap = SCHEDULER_CHECK_INTERVAL_MINUTES => ShortTicks(now) < MaxShortTicks
    /\ now' = now + gap
    /\ pc' = [pc EXCEPT !["sched"] =
                 SchedNext(get_users_without_login(audits, users, now + gap))]
    /\ intent' = NoIntent
    /\ UNCHANGED <<audits, seq, idIsPk, dupCols, started, users, tokens,
                   nextToken, consuming, loginOk, supIntentAt, granted>>
    /\ UNCHANGED settings

\* the escalation step of candidate u, shared by TickGet and TickEscalate
Escalate(u, rest) ==
    \E raised \in BOOLEAN :
        LET e == escalate(audits, idIsPk, seq, tokens, nextToken, users, u, now,
                          raised)
        IN  /\ e.nt <= MaxTokens
            /\ InBounds(e.A, e.S)
            /\ audits' = e.A
            /\ seq' = e.S
            /\ tokens' = e.T
            /\ nextToken' = e.nt
            /\ supIntentAt' = IF e.intent = "supervisor"
                              THEN [supIntentAt EXCEPT ![u] = now]
                              ELSE supIntentAt
            /\ intent' = [u |-> u, tier |-> e.intent, report |-> e.report]
            /\ pc' = [pc EXCEPT !["sched"] = SchedNext(rest)]
            /\ UNCHANGED <<idIsPk, dupCols, started, users, now, consuming,
                           loginOk, granted>>

\* the next candidate: its record is read; with a record the escalation step
\* follows at once, without one create_audit_record is entered and has made
\* its lookup
TickGet(u) ==
    /\ pc["sched"].op = "tick"
    /\ u \in pc["sched"].cands
    /\ LET g == get_audit_record(audits, idIsPk, seq, users, u, Today)
           rest == pc["sched"].cands \ {u}
       IN  IF g.found
           THEN Escalate(u, rest)
           ELSE /\ create_lookup(g.A, u, Today) = NULL
                /\ InBounds(g.A, g.S)
                /\ audits' = g.A
                /\ seq' = g.S
                /\ pc' = [pc EXCEPT !["sched"] =
                             [Idle EXCEPT !.op = "create", !.u = u, !.d = Today,
                                  !.t = users[u].user_login_time, !.cands = rest]]
                /\ intent' = NoIntent
                /\ UNCHANGED <<idIsPk, dupCols, started, users, tokens, nextToken, now,
                               consuming, loginOk, supIntentAt, granted>>
    /\ UNCHANGED settings

\* create_audit_record(u, d, t) on the scheduler thread, its lookup having
\* seen no valid row: the delete-insert transaction
TickCreate ==
    /\ pc["sched"].op = "create"
    /\ LET p == pc["sched"]
           c == create_txn(audits, idIsPk, seq, p.u, p.d, p.t)
       IN  /\ InBounds(c.A, c.S)
           /\ audits' = c.A
           /\ seq' = c.S
           /\ pc' = [pc EXCEPT !["sched"] =
                        IF c.raised THEN SchedNext(p.cands)
                        ELSE [p EXCEPT !.op = "escalate"]]
           /\ intent' = NoIntent
    /\ UNCHANGED <<idIsPk, dupCols, started, users, tokens, nextToken, now,
                   consuming, loginOk, supIntentAt, granted>>
    /\ UNCHANGED settings

TickEscalate ==
    /\ pc["sched"].op = "escalate"
    /\ Escalate(pc["sched"].u, pc["sched"].cands)
    /\ UNCHANGED settings

\* ----------------------------------------------------- the request threads
InFlightTo[n \in 0..MaxTokens] ==
    IF n = 0 THEN 0 ELSE consuming[n] + InFlightTo[n - 1]
InFlight ==
    InFlightTo[MaxTokens]
\* an acknowledgment link is visited with token tok: the lookup.  An unknown
\* or used token is answered Invalid at once.
AckLookup(tok) ==
    /\ started
    /\ IF ack_valid(tokens, tok)
       THEN /\ InFlight < MaxRequests
            /\ consuming' = [consuming EXCEPT ![tok] = @ + 1]
            /\ intent' = NoIntent
       ELSE /\ consuming' = consuming
            /\ intent' = NoIntent
    /\ UNCHANGED <<audits, seq, idIsPk, dupCols, started, users, tokens,
                   nextToken, now, pc, loginOk, supIntentAt, granted>>
    /\ UNCHANGED settings

\* the token was found unused: mark it used, set the acknowledged flag,
\* answer with the token's user and tier
AckConsume(tok) ==
    /\ consuming[tok] > 0
    /\ LET r == ack_consume(audits, idIsPk, seq, tokens, users, tok, Today)
       IN  /\ InBounds(r.A, r.S)
           /\ audits' = r.A
           /\ seq' = r.S
           /\ tokens' = r.T
           /\ granted' = [granted EXCEPT ![tok] = @ + 1]
           /\ intent' = NoIntent
    /\ consuming' = [consuming EXCEPT ![tok] = @ - 1]
    /\ UNCHANGED <<idIsPk, dupCols, started, users, nextToken, now, pc,
                   loginOk, supIntentAt>>
    /\ UNCHANGED settings

\* ------------------------------------------------------ the repair process
\* database_repair.main() with the tables in order: fix_user_record(u),
\* its lookup
FixUserLookup(u) ==
    /\ pc["repair"].op = "idle"
    /\ check_tables(idIsPk)
    /\ pc' = [pc EXCEPT !["repair"] =
                 IF fix_user_lookup(audits, u, Today) THEN Idle
                 ELSE [Idle EXCEPT !.op = "fix_user", !.u = u, !.d = Today,
                                   !.t = ExpectedLoginOf(users, u)]]
    /\ intent' = NoIntent
    /\ UNCHANGED <<audits, seq, idIsPk, dupCols, started, users, tokens,
                   nextToken, now, consuming, loginOk, supIntentAt, granted>>
    /\ UNCHANGED settings

\* fix_user_record(u), the lookup having found no row: the INSERT
FixUserInsert ==
    /\ pc["repair"].op = "fix_user"
    /\ LET p == pc["repair"]
           r == fix_user_insert(audits, idIsPk, seq, p.u, p.d, p.t)
       IN  /\ InBounds(r.A, r.S)
           /\ audits' = r.A
           /\ seq' = r.S
           /\ intent' = NoIntent
    /\ pc' = [pc EXCEPT !["repair"] = Idle]
    /\ UNCHANGED <<idIsPk, dupCols, started, users, tokens, nextToken, now,
                   consuming, loginOk, supIntentAt, granted>>
    /\ UNCHANGED settings

\* database_repair.main() with check_tables failing: manual_fix()
ManualFix ==
    /\ pc["repair"].op = "idle"
    /\ ~check_tables(idIsPk)
    /\ LET r == manual_fix(audits, users, Today)
       IN  /\ InBounds(r.A, r.S)
           /\ audits' = r.A
           /\ seq' = r.S
    /\ idIsPk' = TRUE
    /\ intent' = NoIntent
    /\ UNCHANGED <<dupCols, started, users, tokens, nextToken, now, pc,
                   consuming, loginOk, supIntentAt, granted>>
    /\ UNCHANGED settings

TickGaps ==
    {SCHEDULER_CHECK_INTERVAL_MINUTES, SUPERVISOR_NOTIFICATION_INTERVAL_MINUTES}

Next ==
    \/ init_database
    \/ \E u \in Users : record_user_login(u)
    \/ \E u \in Users : record_user_logout(u)
    \/ FixStuckRecords
    \/ \E gap \in TickGaps : TickBegin(gap)
    \/ \E u \in Users : TickGet(u)
    \/ TickCreate
    \/ TickEscalate
    \/ \E tok \in 0..MaxTokens : AckLookup(tok)
    \/ \E tok \in Tokens : AckConsume(tok)
    \/ \E u \in Users : FixUserLookup(u)
    \/ FixUserInsert
    \/ ManualFix

Spec ==
    Init /\ [][Next]_vars

\* ------------------------------------------- the dashboard's settings form
\* notification_settings, "Save Settings": the form shows 3 whatever the
\* service file holds, and the limit is changed by replacing the text
\* "if self_notified < 3:" in the service file with the number entered; a
\* text that is not there is not replaced.  The form reports success.
current_self_notify == 3
LimitChoices ==
    {2, 3, 4}
SaveSettings(n) ==
    /\ serviceLimit' = IF serviceLimit = current_self_notify THEN n
                        ELSE serviceLimit
    /\ savedLimit' = n
    /\ UNCHANGED <<audits, seq, idIsPk, dupCols, started, users, tokens,
                   nextToken, now, pc, consuming, intent, loginOk, supIntentAt,
                   granted, selfLimit, startLimit>>
\* "Please restart the bot for changes to take effect": the scheduler is
\* started again and loads the service file
Restart ==
    /\ started
    /\ \A p \in Procs : pc[p].op = "idle"
    /\ \A k \in Tokens : consuming[k] = 0
    /\ selfLimit' = serviceLimit
    /\ startLimit' = savedLimit
    /\ intent' = NoIntent
    /\ UNCHANGED <<audits, seq, idIsPk, dupCols, started, users, tokens,
                   nextToken, now, pc, consuming, loginOk, supIntentAt,
                   granted, serviceLimit, savedLimit>>
\* the scheduler, the logins and the settings form
NextSettings ==
    \/ init_database
    \/ \E u \in Users : record_user_login(u)
    \/ \E gap \in TickGaps : TickBegin(gap)
    \/ \E u \in Users : TickGet(u)
    \/ TickCreate
    \/ TickEscalate
    \/ \E n \in LimitChoices : SaveSettings(n)
    \/ Restart
SpecSettings ==
    Init /\ [][NextSettings]_vars

\* ================================================================== claims
Counters ==
    {"self_notified", "supervisor_notified", "second_supervisor_notified",
     "email_supervisor_notified", "email_second_supervisor_notified"}
\* the record of (u, today) as get_audit_record's SELECT sees it
RecordOfToday(u) ==
    FetchOne(audits, u, Today)

\* C1: for every user and today's workday, create_audit_record called twice in
\* a row returns the same record identifier both times, and the second call
\* leaves the audits table as the first call left it.
C1_CreateIdempotent ==
    \A u \in Users :
        LET t == ExpectedLoginOf(users, u)
            r1 == create_audit_record(audits, idIsPk, seq, u, Today, t)
            r2 == create_audit_record(r1.A, idIsPk, r1.S, u, Today, t)
        IN  /\ ~r1.raised
            /\ ~r2.raised
            /\ r1.ret # NULL
            /\ r2.ret = r1.ret
            /\ r2.A = r1.A

\* C2: in every reachable state the audits table holds at most one row per
\* (user, workday).
C2_OneRecordPerUserDay ==
    \A u \in Users : \A d \in 0..Workday(MaxNow) : Len(RowsOf(audits, u, d)) <= 1

\* C3: an issued token is consumed successfully exactly once: a visit with the
\* token unused answers with the token's user and tier and leaves it used, the
\* visit after it is Invalid, and once a consumption has succeeded every
\* visit is Invalid.
C3_ConsumeOnce ==
    \A tok \in DOMAIN tokens :
        LET h1 == acknowledge(audits, idIsPk, seq, tokens, users, tok, Today)
            h2 == acknowledge(h1.A, idIsPk, h1.S, h1.T, users, tok, Today)
        IN  /\ tokens[tok].used = 0 =>
                /\ h1.ok
                /\ h1.user = tokens[tok].user_slack_id
                /\ h1.second = tokens[tok].is_second_supervisor
                /\ ~h2.ok
            /\ tokens[tok].used = 1 => ~h1.ok
            /\ granted[tok] >= 1 => ~h1.ok
C3_Witness ==
    \E tok \in DOMAIN tokens :
        /\ granted[tok] = 1
        /\ tokens[tok].used = 1
        /\ \E u \in Users :
               /\ HasRow(audits, u, Today)
               /\ RecordOfToday(u).is_supervisor_acknowledged = 1

\* C4: of the request threads that consume one token at most one succeeds,
\* however their lookups and marks interleave.
C4_OneSuccessPerToken ==
    \A tok \in Tokens : granted[tok] <= 1

\* C5: a token that was never issued grants nothing: the visit is Invalid and
\* leaves the audits table and the token table as they were, and marking it
\* used creates and changes no token row.
C5_UnknownTokenGrantsNothing ==
    \A tok \in (0..MaxTokens) \ DOMAIN tokens :
        LET h == acknowledge(audits, idIsPk, seq, tokens, users, tok, Today)
        IN  /\ ~get_acknowledgment_token(tokens, tok).found
            /\ ~h.ok
            /\ h.A = audits
            /\ h.T = tokens
            /\ mark_token_used(tokens, tok).T = tokens
            /\ tok \in Tokens => granted[tok] = 0
C5_Witness ==
    /\ \E tok \in Tokens : tok \notin DOMAIN tokens
    /\ \E tok \in DOMAIN tokens : tokens[tok].used = 0
    /\ \E u \in Users :
           /\ HasRow(audits, u, Today)
           /\ RecordOfToday(u).supervisor_notified > 0
           /\ RecordOfToday(u).is_supervisor_acknowledged = 0

\* C6: once update_user_login has returned True for (u, today), u is not among
\* get_users_without_login, the record of (u, today) carries a login time
\* (the state is Acknowledged), and no step emits a notification intent for u.
C6_LoginEndsEscalation ==
    \A u \in Users :
        <<u, Today>> \in loginOk =>
            /\ u \notin get_users_without_login(audits, users, now)
            /\ HasRow(audits, u, Today)
            /\ RecordOfToday(u).login_time # NULL
            /\ intent.u = u => intent.tier = "none"

\* C7: in every audit record second_supervisor_notified > 0 implies
\* supervisor_notified > 0.
C7_TiersOrdered ==
    \A i \in DOMAIN audits :
        audits[i].second_supervisor_notified > 0 => audits[i].supervisor_notified > 0
C7_Witness ==
    \E i \in DOMAIN audits :
        /\ audits[i].second_supervisor_notified > 0
        /\ audits[i].supervisor_notified > 0

\* C8: a supervisor intent for a user is emitted only when the supervisor has
\* not acknowledged and either none was emitted before or at least
\* SUPERVISOR_NOTIFICATION_INTERVAL_MINUTES have passed since the last one and
\* since last_supervisor_notification_time, however long the scheduler paused.
C8_SupervisorRateLimited ==
    [][\A u \in Users :
          (intent'.u = u /\ intent'.tier = "supervisor") =>
              /\ supIntentAt[u] # NULL =>
                     now' - supIntentAt[u] >= SUPERVISOR_NOTIFICATION_INTERVAL_MINUTES
              /\ HasRow(audits, u, Workday(now'))
              /\ LET r == FetchOne(audits, u, Workday(now'))
                 IN  /\ r.is_supervisor_acknowledged = 0
                     /\ r.last_supervisor_notification_time # NULL =>
                            now' - r.last_supervisor_notification_time
                                >= SUPERVISOR_NOTIFICATION_INTERVAL_MINUTES]_vars
C8_Witness ==
    \E u \in Users :
        /\ intent.u = u
        /\ intent.tier = "supervisor"
        /\ HasRow(audits, u, Today)
        /\ RecordOfToday(u).supervisor_notified = 2
        /\ RecordOfToday(u).last_supervisor_notification_time = now

\* C9: for every row with an id and every value X, update_audit_record(id,
\* login_time = X) followed at once by get_audit_record of the row's user and
\* workday returns a record whose login_time is X.
C9_UpdateReadRoundTrip ==
    \A i \in DOMAIN audits : \A X \in {NULL, now} :
        audits[i].id # NULL =>
            LET upd == update_audit_record(audits, audits[i].id, "login_time" :> X)
                g == get_audit_record(upd.A, idIsPk, seq, users,
                                      audits[i].user_slack_id, audits[i].workday)
            IN  /\ upd.ret
                /\ g.found
                /\ g.ret.login_time = X

\* C10: with a row of (u, d) that has no id, manual_fix leaves exactly one row
\* of (u, d), with an id, each of its notification counters being the stored
\* counter of the row, 0 where none was stored.
C10_ManualFixRepairsNullId ==
    \A i \in DOMAIN audits :
        audits[i].id = NULL =>
            LET rows == RowsOf(manual_fix(audits, users, Today).A,
                               audits[i].user_slack_id, audits[i].workday)
            IN  /\ Len(rows) = 1
                /\ rows[1].id # NULL
                /\ \A c \in Counters : rows[1][c] = Coalesce(audits[i][c])

\* the user has no second supervisor configured
NoSecond(u) ==
    users[u].second_supervisor_slack_id = "none"
\* no acknowledgment link of any token has been consumed or is being consumed
NoAcknowledgment ==
    \A k \in Tokens : granted[k] = 0 /\ consuming[k] = 0

\* C11: for a user expected at minute 0 without a second supervisor, with no
\* login and no acknowledgment: after the ticks at minutes 2, 4, 6 the
\* self-notified count is 1, 2, 3; the tick at minute 8 emits the supervisor
\* intent and stamps last_supervisor_notification_time with 8; from then on
\* the record stays at supervisor notified, second_supervisor_notified stays
\* 0, and every later evaluation reports the missing second supervisor.
C11_NoSecondSupervisorScenario ==
    \A u \in Users :
        ( /\ NoSecond(u)
          /\ users[u].user_login_time = 0
          /\ <<u, Today>> \notin loginOk
          /\ NoAcknowledgment
          /\ pc["sched"].op = "idle"
          /\ now >= SCHEDULER_CHECK_INTERVAL_MINUTES ) =>
            /\ HasRow(audits, u, Today)
            /\ LET r == RecordOfToday(u)
                   n == now \div SCHEDULER_CHECK_INTERVAL_MINUTES
               IN  /\ n <= MAX_SELF_NOTIFICATIONS =>
                          r.self_notified = n /\ r.supervisor_notified = 0
                   /\ n = MAX_SELF_NOTIFICATIONS + 1 =>
                          /\ r.self_notified = MAX_SELF_NOTIFICATIONS
                          /\ r.supervisor_notified = 1
                          /\ r.last_supervisor_notification_time = now
                          /\ supIntentAt[u] = now
                   /\ supIntentAt[u] # NULL => r.supervisor_notified > 0
                   /\ r.second_supervisor_notified = 0
                   /\ (supIntentAt[u] # NULL /\ supIntentAt[u] < now /\ intent.u = u) =>
                          intent.report /\ intent.tier \in {"none", "supervisor"}

TimeFields ==
    {"login_time", "logout_time"}
\* the row an upsert of field f with time t creates for (u, today): the
\* timestamp, every counter and flag 0
IsFreshRow(r, u, f, t) ==
    /\ r.user_slack_id = u
    /\ r.workday = Today
    /\ r[f] = t
    /\ \A g \in TimeFields \ {f} : r[g] = NULL
    /\ \A c \in Counters : r[c] = 0
    /\ r.is_supervisor_acknowledged = 0
    /\ r.is_second_supervisor_acknowledged = 0

\* C12: update_user_login and record_user_logout are upserts: with no record
\* of (u, today) exactly one is created, carrying the timestamp and zero
\* counters, and no other row changes; with a record, its login_time
\* (logout_time) becomes the timestamp and no other field and no other row
\* changes.
C12_UpsertFrame ==
    \A u \in Users : \A f \in TimeFields :
        LET r == upsert_time(audits, idIsPk, seq, users, u, Today, f, now)
        IN  IF ~HasRow(audits, u, Today)
            THEN /\ Len(r.A) = Len(audits) + 1
                 /\ SubSeq(r.A, 1, Len(audits)) = audits
                 /\ IsFreshRow(r.A[Len(r.A)], u, f, now)
            ELSE /\ Len(r.A) = Len(audits)
                 /\ FetchOne(r.A, u, Today) = [FetchOne(audits, u, Today) EXCEPT ![f] = now]
                 /\ \A i \in DOMAIN audits :
                        \/ r.A[i] = audits[i]
                        \/ /\ audits[i] = FetchOne(audits, u, Today)
                           /\ r.A[i] = [audits[i] EXCEPT ![f] = now]

\* C13: update_user_login and record_user_logout return True only with the
\* stored timestamp of the record of (u, today) equal to the one given; when
\* they return False, verification mismatch or exception, the committed
\* store is what it was before the call.
C13_VerifiedOrUnchanged ==
    \A u \in Users : \A f \in TimeFields :
        \A r \in upsert_outcomes(audits, idIsPk, seq, users, u, Today, f, now) :
            /\ r.ret => HasRow(r.A, u, Today) /\ FetchOne(r.A, u, Today)[f] = now
            /\ ~r.ret => r.A = audits /\ r.S = seq
C13_Witness ==
    \E u \in Users :
        /\ <<u, Today>> \in loginOk
        /\ ~record_user_logout_at(audits, idIsPk, seq, users, u, Today, now).ret
        /\ RecordOfToday(u).login_time # NULL

\* the ids no row of the table has, NULL among them
MissingIds ==
    {NULL} \cup {id \in 1..(MaxId + 1) : RowsById(audits, id) = <<>>}
\* field changes a caller may pass, none at all among them
SomeChanges ==
    { <<>>,
      "login_time" :> now,
      "self_notified" :> 1,
      ("supervisor_notified" :> 1) @@ ("last_supervisor_notification_time" :> now),
      "is_supervisor_acknowledged" :> 1 }

\* C14: update_audit_record with an id that is NULL or that no row has does
\* not succeed (it returns False, or None when no field is given) and leaves
\* the audits table as it was.
C14_UpdateMissingIdFails ==
    \A id \in MissingIds : \A kw \in SomeChanges :
        LET r == update_audit_record(audits, id, kw)
        IN  /\ ~r.ret
            /\ r.none <=> DOMAIN kw = {}
            /\ r.A = audits
C14_Witness ==
    /\ \E i \in DOMAIN audits :
           /\ audits[i].id = NULL
           /\ audits[i].login_time = NULL
           /\ audits[i].self_notified = 0
    /\ now >= SCHEDULER_CHECK_INTERVAL_MINUTES
    /\ ~update_audit_record(audits, NULL, "self_notified" :> 1).ret

\* C15: get_users_without_login returns exactly the users whose expected
\* login time of day is at or before the current time of day and who have no
\* record of today carrying a login time or have a record of today whose
\* login time is unset.
C15_UsersWithoutLoginExact ==
    get_users_without_login(audits, users, now) =
        { u \in DOMAIN users :
            /\ ParsedMinutes(users[u].user_login_time) # NULL
            /\ ParsedMinutes(users[u].user_login_time) <= TimeOfDay(now)
            /\ \/ ~ \E i \in DOMAIN audits : /\ Match(audits[i], u, Today)
                                             /\ audits[i].login_time # NULL
               \/ \E i \in DOMAIN audits : /\ Match(audits[i], u, Today)
                                           /\ audits[i].login_time = NULL }

\* the repair runs: fix_stuck_records and the steps of database_repair.py
RepairStep ==
    \/ FixStuckRecords
    \/ ManualFix
    \/ \E u \in Users : FixUserLookup(u)
    \/ FixUserInsert
AckFlags ==
    {"is_supervisor_acknowledged", "is_second_supervisor_acknowledged"}
\* (user, workday, flag) with the flag set in some row of table A
Acknowledged(A) ==
    { k \in (Users \X { A[i].workday : i \in DOMAIN A } \X AckFlags) :
        \E i \in DOMAIN A : /\ A[i].user_slack_id = k[1]
                             /\ A[i].workday = k[2]
                             /\ A[i][k[3]] = 1 }
C18_IdNeverNull ==
    \A i \in DOMAIN audits : audits[i].id # NULL

\* C19: fix_stuck_records run twice in a row leaves every audit record as one
\* run leaves it, and the second run reports zero records fixed.
C19_FixStuckIdempotent ==
    LET once == fix_stuck_records(audits, now)
    IN  /\ fix_stuck_records(once, now) = once
        /\ fix_stuck_records_count(once, now) = 0

\* C20: when a login for (u, today) commits while the scheduler's
\* create_audit_record(u, today) is in flight, the create's transaction
\* deletes no row that has a valid id, and once it has finished the single
\* row of (u, today) carries the login time.
C20_LoginSurvivesCreate ==
    [][TickCreate =>
         /\ \A i \in DOMAIN audits :
                audits[i].id # NULL =>
                    \E j \in DOMAIN audits' : audits'[j].id = audits[i].id
         /\ \A u \in Users :
                <<u, Today>> \in loginOk =>
                    /\ Len(RowsOf(audits', u, Today)) = 1
                    /\ FetchOne(audits', u, Today).login_time # NULL]_vars

\* field changes as a caller may bind them, a count given as text among them
BoundChanges ==
    (SomeChanges \ {<<>>}) \cup {"self_notified" :> StrOf(1)}
\* C21: update_audit_record returns True only when the row of that id reads
\* back the requested value in every changed field, and when it does not
\* return True the audits table is as it was before the call.
C21_UpdateVerifiesValues ==
    \A id \in {NULL} \cup 1..(MaxId + 1) : \A kw \in BoundChanges :
        LET r == update_audit_record(audits, id, kw)
        IN  /\ r.ret =>
                 /\ RowsById(r.A, id) # <<>>
                 /\ \A c \in DOMAIN kw : Head(RowsById(r.A, id))[c] = kw[c]
            /\ ~r.ret => r.A = audits

\* the primary-tier tokens stored for user u
PrimaryTokens(u) ==
    { k \in DOMAIN tokens : /\ tokens[k].user_slack_id = u
                            /\ tokens[k].is_second_supervisor = 0 }
\* C22: in every reachable state an unused primary-tier token of a user
\* exists only if the user's record of today has supervisor_notified > 0 and
\* a stamped last_supervisor_notification_time, and a record with
\* supervisor_notified > 0 has a primary-tier token of its user.
C22_SupervisorNotifiedAllOrNothing ==
    \A u \in Users :
        /\ (\E k \in PrimaryTokens(u) : tokens[k].used = 0) =>
               /\ HasRow(audits, u, Today)
               /\ \E i \in DOMAIN audits :
                      /\ Match(audits[i], u, Today)
                      /\ audits[i].supervisor_notified > 0
                      /\ audits[i].last_supervisor_notification_time # NULL
        /\ (\E i \in DOMAIN audits : /\ audits[i].user_slack_id = u
                                      /\ audits[i].supervisor_notified > 0) =>
               PrimaryTokens(u) # {}

\* the moments a repair run may fall on: at the last tick or a minute later
RepairTimes ==
    { t \in {now, now + 1} : Workday(t) = Today }
\* C23: fix_stuck_records changes only rows of today in which the supervisor
\* was notified at least SUPERVISOR_ESCALATION_MINUTES ago, the second tier
\* was not notified and the supervisor has not acknowledged; every other row,
\* a row whose escalation window has not elapsed among them, stays as it is.
C23_FixStuckOnlyElapsed ==
    \A t \in RepairTimes :
        \A i \in DOMAIN audits :
            fix_stuck_records(audits, t)[i] # audits[i] =>
                /\ audits[i].workday = Workday(t)
                /\ audits[i].supervisor_notified > 0
                /\ audits[i].second_supervisor_notified = 0
                /\ audits[i].is_supervisor_acknowledged = 0
                /\ audits[i].last_supervisor_notification_time # NULL
                /\ t - audits[i].last_supervisor_notification_time
                       >= SUPERVISOR_ESCALATION_MINUTES

\* the record of (u, today) awaits the second tier: supervisor notified, second
\* tier not, no login, no acknowledgment, a second supervisor configured
AwaitsSecond(u) ==
    /\ users[u].second_supervisor_slack_id # "none"
    /\ supIntentAt[u] # NULL
    /\ HasRow(audits, u, Today)
    /\ RecordOfToday(u).id # NULL
    /\ RecordOfToday(u).login_time = NULL
    /\ RecordOfToday(u).self_notified >= MAX_SELF_NOTIFICATIONS
    /\ RecordOfToday(u).supervisor_notified > 0
    /\ RecordOfToday(u).second_supervisor_notified = 0
    /\ RecordOfToday(u).is_supervisor_acknowledged = 0
    /\ RecordOfToday(u).is_second_supervisor_acknowledged = 0
\* the instant the escalation delay of u's record is measured from is the
\* instant of the supervisor notification: a tick at the current time decides
\* on the second tier as it would with that instant in the stamp
DelayFromNotification ==
    \A u \in Users :
        AwaitsSecond(u) =>
            EscalationTier(TRUE, RecordOfToday(u), TRUE, now) =
            EscalationTier(TRUE,
                [RecordOfToday(u) EXCEPT
                    !.last_supervisor_notification_time = supIntentAt[u]],
                TRUE, now)
\* C24: a step emits a second-supervisor intent for u only if u has a second
\* supervisor, the record does not carry the supervisor's acknowledgment and
\* the supervisor intent for u was emitted at least
\* SUPERVISOR_ESCALATION_MINUTES earlier; and after every step, a repair run
\* that re-stamps last_supervisor_notification_time included, the delay is
\* still measured from the instant of that supervisor notification.
C24_SecondAfterEscalationDelay ==
    [][/\ \A u \in Users :
             (intent'.u = u /\ intent'.tier = "second") =>
                 /\ users[u].second_supervisor_slack_id # "none"
                 /\ HasRow(audits, u, Workday(now'))
                 /\ FetchOne(audits, u, Workday(now')).is_supervisor_acknowledged = 0
                 /\ FetchOne(audits', u, Workday(now')).is_supervisor_acknowledged = 0
                 /\ supIntentAt[u] # NULL
                 /\ now' - supIntentAt[u] >= SUPERVISOR_ESCALATION_MINUTES
       /\ DelayFromNotification']_vars

\* C25: a step raises the self_notified count of a record only by one, only
\* from a count below the maximum configured when the scheduler was started,
\* only while the record has no login, and it emits the self notification;
\* so the count never passes the largest maximum configured so far.
C25_SelfNotifiedCapped ==
    [][\A i \in DOMAIN audits : \A j \in DOMAIN audits' :
          (/\ audits[i].id # NULL
           /\ audits'[j].id = audits[i].id
           /\ audits'[j].self_notified # audits[i].self_notified) =>
              /\ audits'[j].self_notified = audits[i].self_notified + 1
              /\ audits[i].self_notified < startLimit
              /\ audits[i].login_time = NULL
              /\ intent'.tier = "self"]_vars

\* a token of either tier was consumed for u today
TokenConsumed(u) ==
    \E k \in DOMAIN tokens :
        /\ tokens[k].user_slack_id = u
        /\ Workday(tokens[k].created_at) = Today
        /\ granted[k] > 0
NotificationCounters ==
    {"self_notified", "supervisor_notified", "second_supervisor_notified"}
\* C26: once a token of either tier has been consumed for (u, today), no step
\* emits a supervisor or second-supervisor intent for u and no step raises a
\* notification counter of a record of (u, today).
C26_AcknowledgedTerminal ==
    [][\A u \in Users :
          TokenConsumed(u) =>
              /\ intent'.u = u => intent'.tier \notin {"supervisor", "second"}
              /\ \A i \in DOMAIN audits : \A j \in DOMAIN audits' :
                     (/\ Match(audits[i], u, Today)
                      /\ audits[i].id # NULL
                      /\ audits'[j].id = audits[i].id) =>
                         \A c \in NotificationCounters :
                             audits'[j][c] <= audits[i][c]
              /\ \A j \in DOMAIN audits' :
                     (/\ Match(audits'[j], u, Today)
                      /\ \A i \in DOMAIN audits : audits[i].id # audits'[j].id) =>
                         \A c \in NotificationCounters :
                             audits'[j][c] = 0 \/ audits'[j][c] = NULL]_vars
\* the token was consumed and a later tick has evaluated the record
C26_Witness ==
    \E u \in Users :
        /\ TokenConsumed(u)
        /\ intent.u = u
        /\ intent.tier = "none"
        /\ HasRow(audits, u, Today)
        /\ RecordOfToday(u).is_supervisor_acknowledged = 1
        /\ RecordOfToday(u).last_supervisor_notification_time < now

\* what a record holds of the day's history
HistoryFields ==
    {"login_time", "logout_time"} \cup NotificationCounters \cup AckFlags
\* C29: get_audit_record(u, today) leaves the login time, logout time,
\* notification counters and acknowledgment flags held for (u, today) as
\* they are, and with no record of (u, today) it returns none and leaves the
\* table as it is.
C29_ReadHasNoSideEffect ==
    \A u \in Users :
        LET g == get_audit_record(audits, idIsPk, seq, users, u, Today)
        IN  IF HasRow(audits, u, Today)
            THEN /\ HasRow(g.A, u, Today)
                 /\ \A f \in HistoryFields :
                        FetchOne(g.A, u, Today)[f] = FetchOne(audits, u, Today)[f]
            ELSE ~g.found /\ g.A = audits

\* ---------------------------------------------- a table of an earlier version
\* The obsolete columns come with the rows written while they were in use:
\* rows of today of the user or of a user since deleted from the dashboard
\* (DELETE FROM users leaves the audits rows), ids in insertion order, with
\* the gaps that create_audit_record's and get_audit_record's DELETE leave.
MaxLegacyRows == 2
LegacyUsers == {"u0", "u1"}
LegacyRow(id, u, login) ==
    NewRow(TRUE, id - 1, u, 0, login, NULL, 0)
LegacyTables ==
    UNION { { t \in [1..n -> (1..MaxId) \X LegacyUsers \X {NULL, 0}] :
                \A i \in 1..n : \A j \in 1..n :
                    i < j => t[i][1] < t[j][1] /\ t[i][2] # t[j][2] } :
            n \in 0..MaxLegacyRows }
InitLegacy ==
    /\ \E t \in LegacyTables :
           /\ audits = [i \in DOMAIN t |-> LegacyRow(t[i][1], t[i][2], t[i][3])]
           /\ seq = IF t = <<>> THEN 0 ELSE t[Len(t)][1]
    /\ idIsPk = TRUE
    /\ dupCols = TRUE
    /\ started = FALSE
    /\ users = [u \in Users |->
                 [ user_login_time |-> 0,
                   supervisor_slack_id |-> "s1",
                   second_supervisor_slack_id |-> "s2" ]]
    /\ tokens = <<>>
    /\ nextToken = 0
    /\ now = 0
    /\ pc = [p \in Procs |-> Idle]
    /\ consuming = [k \in Tokens |-> 0]
    /\ intent = NoIntent
    /\ loginOk = {}
    /\ supIntentAt = [u \in Users |-> NULL]
    /\ granted = [k \in Tokens |-> 0]
    /\ serviceLimit = MAX_SELF_NOTIFICATIONS
    /\ selfLimit = MAX_SELF_NOTIFICATIONS
    /\ savedLimit = MAX_SELF_NOTIFICATIONS
    /\ startLimit = MAX_SELF_NOTIFICATIONS
\* start-up with its schema cleanup, logins and logouts, the repair process
NextLegacy ==
    \/ init_database
    \/ \E u \in Users : record_user_login(u)
    \/ \E u \in Users : record_user_logout(u)
    \/ \E u \in Users : FixUserLookup(u)
    \/ FixUserInsert
    \/ ManualFix
SpecLegacy ==
    InitLegacy /\ [][NextLegacy]_vars

\* C28: a run of manual_fix or of init_database with its
\* clean_duplicate_columns leaves every row that had a non-null id with that
\* id: the table afterwards holds a row of the same user and workday under
\* the same id.
C28_RepairKeepsIds ==
    [][(ManualFix \/ init_database) =>
          \A i \in DOMAIN audits :
              audits[i].id # NULL =>
                  \E j \in DOMAIN audits' :
                      /\ audits'[j].id = audits[i].id
                      /\ audits'[j].user_slack_id = audits[i].user_slack_id
                      /\ audits'[j].workday = audits[i].workday]_vars

\* ------------------------------------------------ the dashboard's user form
\* edit_user, "Save Changes": UPDATE users SET ..., user_login_time = ?, ...
\* with the text typed into the form
\* (a time of day, or the field left blank)
LoginEdits ==
    {0, SCHEDULER_CHECK_INTERVAL_MINUTES, Blank}
edit_user(u, login) ==
    /\ users[u].user_login_time # login
    /\ users' = [users EXCEPT ![u].user_login_time = login]
    /\ UNCHANGED <<audits, seq, idIsPk, dupCols, started, tokens, nextToken,
                   now, pc, consuming, intent, loginOk, supIntentAt, granted,
                   settings>>
\* the store operations and the user form
NextEdit ==
    \/ init_database
    \/ \E u \in Users : record_user_login(u)
    \/ \E u \in Users : record_user_logout(u)
    \/ \E gap \in TickGaps : TickBegin(gap)
    \/ \E u \in Users : TickGet(u)
    \/ TickCreate
    \/ TickEscalate
    \/ ManualFix
    \/ \E u \in Users : \E login \in LoginEdits : edit_user(u, login)
SpecEdit ==
    Init /\ [][NextEdit]_vars

\* C27: a record of (u, today) that appears carries the expected login time
\* the user has at that moment (the one create_audit_record was called with,
\* when that call inserts it), and no later step, an edit of the user's
\* login time and the store operations after it included, changes the
\* expected_login_time held for (u, today).
C27_ExpectedLoginSnapshot ==
    [][\A u \in Users :
          /\ (~HasRow(audits, u, Today) /\ HasRow(audits', u, Today)) =>
                 FetchOne(audits', u, Today).expected_login_time =
                     IF pc["sched"].op = "create" /\ pc'["sched"].op # "create"
                     THEN pc["sched"].t
                     ELSE users[u].user_login_time
          /\ (HasRow(audits, u, Today) /\ HasRow(audits', u, Today)) =>
                 FetchOne(audits', u, Today).expected_login_time =
                     FetchOne(audits, u, Today).expected_login_time]_vars

\* C30: a user whose login time was left blank in the form is not among
\* get_users_without_login, at any time of day and whatever the audits table
\* holds, and so is never handed to the escalation.
C30_BlankLoginTimeNeverReturned ==
    \A u \in Users :
        users[u].user_login_time = Blank =>
            /\ u \notin get_users_without_login(audits, users, now)
            /\ (pc["sched"].op = "tick" => u \notin pc["sched"].cands)

\* ---------------------------------------------------------------------
\* The fallback lookup over tables of several users and workdays.
\* Rows are appended for the current workday only, ids are handed out in
\* increasing order, and a row of the rebuilt table (NULL id) has never been
\* escalated, since no UPDATE ... WHERE id = ? reaches it.
MaxFindRows == 3
FindUsers == {"u1", "u2"}
FindDays == {0, 1}
Supervisors == {"s1", "s2", "s3"}
\* <<supervisor_notified, second_supervisor_notified,
\*   is_supervisor_acknowledged, is_second_supervisor_acknowledged>>
EscalationStates ==
    { <<0, 0, 0, 0>>, <<1, 0, 0, 0>>, <<1, 0, 1, 0>>,
      <<1, 1, 0, 0>>, <<1, 1, 1, 0>>, <<1, 1, 0, 1>> }
FindCells ==
    { c \in FindUsers \X FindDays \X EscalationStates \X BOOLEAN :
        ~c[4] => c[3] = <<0, 0, 0, 0>> }
FindRow(i, c) ==
    [ NewRow(c[4], i - 1, c[1], c[2] * DayLen, NULL, NULL, 0) EXCEPT
        !.self_notified = IF c[3][1] > 0 THEN MAX_SELF_NOTIFICATIONS ELSE 0,
        !.supervisor_notified = c[3][1],
        !.second_supervisor_notified = c[3][2],
        !.is_supervisor_acknowledged = c[3][3],
        !.is_second_supervisor_acknowledged = c[3][4],
        !.last_supervisor_notification_time =
            IF c[3][1] > 0 THEN c[2] * DayLen ELSE NULL,
        !.last_second_supervisor_notification_time =
            IF c[3][2] > 0 THEN c[2] * DayLen ELSE NULL ]
FindTables ==
    UNION { { t \in [1..n -> FindCells] :
                \A i \in 1..n : \A j \in 1..n : i < j => t[i][2] <= t[j][2] } :
            n \in 0..MaxFindRows }
InitFind ==
    /\ \E t \in FindTables :
           /\ audits = [i \in DOMAIN t |-> FindRow(i, t[i])]
           /\ seq = Len(t)
           /\ idIsPk = (\A i \in DOMAIN t : t[i][4])
    /\ dupCols = FALSE
    /\ started = TRUE
    /\ \E other \in {"s1", "s3"} :
           users = [u \in FindUsers |->
                     [ user_login_time |-> 0,
                       supervisor_slack_id |-> IF u = "u1" THEN "s1" ELSE other,
                       second_supervisor_slack_id |-> "s2" ]]
    /\ tokens = <<>>
    /\ nextToken = 0
    /\ now = DayLen
    /\ pc = [p \in Procs |-> Idle]
    /\ consuming = [k \in Tokens |-> 0]
    /\ intent = NoIntent
    /\ loginOk = {}
    /\ supIntentAt = [u \in Users |-> NULL]
    /\ granted = [k \in Tokens |-> 0]
    /\ serviceLimit = MAX_SELF_NOTIFICATIONS
    /\ selfLimit = MAX_SELF_NOTIFICATIONS
    /\ savedLimit = MAX_SELF_NOTIFICATIONS
    /\ startLimit = MAX_SELF_NOTIFICATIONS

\* An acknowledgment request without a token: the record found for the
\* supervisor and tier is marked acknowledged.
AckFallback(S, secondary) ==
    LET r == find_unacknowledged_audit_record(audits, users, S, secondary)
        flag == IF secondary THEN "is_second_supervisor_acknowledged"
                ELSE "is_supervisor_acknowledged"
    IN  /\ r.found
        /\ audits' = update_audit_record(audits, audits[r.at].id, flag :> 1).A
        /\ UNCHANGED <<seq, idIsPk, dupCols, started, users, tokens, nextToken,
                       now, pc, consuming, intent, loginOk, supIntentAt, granted,
                       settings>>
NextFind ==
    \E S \in Supervisors : \E secondary \in BOOLEAN : AckFallback(S, secondary)
SpecFind ==
    InitFind /\ [][NextFind]_vars

\* the rows the fallback may return for supervisor S of a tier: a row of a
\* user whose supervisor of that tier is S, the tier notified, not acknowledged
Awaiting(S, secondary) ==
    { i \in DOMAIN audits :
        LET a == audits[i]
            u == users[a.user_slack_id]
        IN  IF secondary
            THEN u.second_supervisor_slack_id = S
                 /\ a.second_supervisor_notified > 0
                 /\ a.is_second_supervisor_acknowledged = 0
            ELSE u.supervisor_slack_id = S
                 /\ a.supervisor_notified > 0
                 /\ a.is_supervisor_acknowledged = 0 }

\* C16: find_unacknowledged_audit_record(S, tier) returns a row exactly when
\* some row of a user supervised by S at that tier has the tier's count above
\* 0 and the tier's flag 0, and the row returned is the most recent of them:
\* none of them was inserted later or belongs to a later workday.
C16_FindMostRecentUnacknowledged ==
    \A S \in Supervisors : \A secondary \in BOOLEAN :
        LET r == find_unacknowledged_audit_record(audits, users, S, secondary)
        IN  /\ r.found <=> Awaiting(S, secondary) # {}
            /\ r.found =>
                 /\ r.at \in Awaiting(S, secondary)
                 /\ \A j \in Awaiting(S, secondary) :
                        /\ j <= r.at
                        /\ audits[j].workday <= audits[r.at].workday
\* two rows of two workdays await the first supervisor, a third one has been
\* acknowledged, and the lookup returns the later of the two
C16_Witness ==
    /\ Cardinality(Awaiting("s1", FALSE)) = 2
    /\ \E i \in Awaiting("s1", FALSE) : \E j \in Awaiting("s1", FALSE) :
           audits[i].workday < audits[j].workday
    /\ \E k \in DOMAIN audits : audits[k].is_supervisor_acknowledged = 1
    /\ find_unacknowledged_audit_record(audits, users, "s1", FALSE).found
====
